---- MODULE Spec2Model ----
(***************************************************************************)
(* Model of hrds.HRDS (src/hrds/hrds.py): construction of the raster       *)
(* stack, band selection and the layered point query.                      *)
(*                                                                         *)
(* Conventions.  Sequences given to the constructor hold distinct markers: *)
(* element i (Python index, from 0) of rasters, distances, buffers and     *)
(* minmax is the marker i, so every stored sampler records the input       *)
(* position it was loaded from (field src) and the minmax entry it was     *)
(* loaded with (field minmax.pos).  TLA+ sequences are indexed from 1:     *)
(* Python's seq[i] is seq[i+1] here.  Buffer values are fixed-point        *)
(* numbers in units of 1/One; a value returned by get_val is the numerator *)
(* of a fraction over One.                                                 *)
(***************************************************************************)
EXTENDS Integers, Sequences, FiniteSets, TLC

MaxRasters == 3
MaxExtra == 1
One == 4

Bands == {1, 2}
RasterProfiles == {"out", "in", "nodata"}
BufferProfiles == {"quarter", "one", "nodata"}
BaseProfiles == {"in", "nodata"}

Min(a, b) == IF a < b THEN a ELSE b

\* optional arguments: Python's None against a supplied sequence
NoneArg == [isNone |-> TRUE, v |-> <<>>]
Some(s) == [isNone |-> FALSE, v |-> s]
Markers(n) == [i \in 1..n |-> i - 1]
OptSeqs(maxLen) == {NoneArg} \cup {Some(Markers(n)) : n \in 0..maxLen}

VARIABLES baseRaster, raster_stack, buffer_stack, status, args, io, tmpdir,
          call, point, result

vars == <<baseRaster, raster_stack, buffer_stack, status, args, io, tmpdir,
          call, point, result>>

----------------------------------------------------------------------------
(* The raster sampler (hrds.raster.RasterInterpolator), at its interface.  *)

NoClamp == [pos |-> -1, hasMax |-> FALSE, max |-> 0]
MinMaxEntry(t) == [pos |-> t, hasMax |-> TRUE, max |-> 10 * t + 1]

\* RasterInterpolator(filename, minmax): a loaded sampler, first band active
RasterInterpolator(kind, src, mm) ==
    [kind |-> kind, src |-> src, minmax |-> mm, band |-> 1]

NoSampler == [kind |-> "none", src |-> -1, minmax |-> NoClamp, band |-> 0]

\* r.set_band(band_no)
set_band(s, b) == [s EXCEPT !.band = b]

\* what the file behind sampler s holds at point p
ProfileAt(s, p) ==
    IF s.kind = "base" THEN p.base
    ELSE IF s.kind = "raster" THEN p.r[s.src + 1]
    ELSE p.b[s.src + 1]

\* r.point_in(point)
point_in(s, p) == ProfileAt(s, p) # "out"

Ok(v) == [exc |-> "none", v |-> v]
Raise(e, v) == [exc |-> e, v |-> v]
SamplerId(s) ==
    IF s.kind = "base" THEN 0
    ELSE IF s.kind = "raster" THEN 100 + s.src ELSE 200 + s.src

RawValue(s) ==
    IF s.kind = "base" THEN 5 + s.band ELSE 10 * (s.src + 1) + s.band

Clamp(mm, v) == IF mm.hasMax /\ v > mm.max THEN mm.max ELSE v

\* r.get_val(point): the clamped value, or the sampler's query error
Sample(s, p) ==
    LET pr == ProfileAt(s, p) IN
    IF pr \in {"out", "nodata"} THEN Raise("QueryError", SamplerId(s))
    ELSE IF s.kind \in {"buffer", "genbuffer"}
         THEN Ok(IF pr = "one" THEN One ELSE One \div 4)
         ELSE Ok(Clamp(s.minmax, RawValue(s)))

----------------------------------------------------------------------------
(* HRDS.__init__                                                           *)

\* the stacks left in input order
Reverse_none(s) == s

RECURSIVE Reverse(_)
\* list.reverse()
Reverse(s) == IF s = <<>> THEN <<>> ELSE Append(Reverse(Tail(s)), Head(s))

\* one I/O step of the constructor and whether it succeeded
Op(op, what, k) == [op |-> op, what |-> what, k |-> k, ok |-> TRUE]

Done(e, msg) == [phase |-> "returned", exc |-> e, msg |-> msg]
NotBuilt == [phase |-> "new", exc |-> "none", msg |-> <<>>]

\* the argument checks; "none" when they pass
CheckArgs(a) ==
    IF a.rasters.isNone THEN Done("TypeError", <<>>)
    ELSE IF a.distances.isNone
    THEN IF a.buffers.isNone THEN Done("TypeError", <<>>)
         ELSE IF Len(a.rasters.v) # Len(a.buffers.v)
              THEN Done("HRDSError", <<Len(a.rasters.v), Len(a.buffers.v)>>)
              ELSE Done("none", <<>>)
    ELSE IF Len(a.rasters.v) # Len(a.distances.v)
         THEN Done("HRDSError", <<Len(a.rasters.v), Len(a.distances.v)>>)
         ELSE Done("none", <<>>)

\* the message reports the refinement rasters only as the expected count
CheckMinMax_wrongCount(a) ==
    IF ~a.minmax.isNone /\ Len(a.rasters.v) + 1 # Len(a.minmax.v)
    THEN Done("HRDSError", <<Len(a.minmax.v), Len(a.rasters.v)>>)
    ELSE Done("none", <<>>)

CheckMinMax(a) ==
    IF ~a.minmax.isNone /\ Len(a.rasters.v) + 1 # Len(a.minmax.v)
    THEN Done("HRDSError", <<Len(a.minmax.v), Len(a.rasters.v) + 1>>)
    ELSE Done("none", <<>>)

ClampFor(a, i) ==
    IF a.minmax.isNone THEN NoClamp ELSE MinMaxEntry(a.minmax.v[i + 1])

\* the base raster, as loaded
LoadBase(a) == RasterInterpolator("base", 0, ClampFor(a, 0))

\* raster_stack as appended, before the reversal (enumerate(rasters))
LoadRasters(a) ==
    [j \in 1..Len(a.rasters.v) |->
        RasterInterpolator("raster", a.rasters.v[j], ClampFor(a, j))]

RasterOps(a) ==
    <<Op("open", "base", 0)>> \o
    [j \in 1..Len(a.rasters.v) |-> Op("open", "raster", a.rasters.v[j])]

\* buffer_stack as appended on the distances path: zip(rasters, distances)
GenBuffers(a) ==
    [j \in 1..Min(Len(a.rasters.v), Len(a.distances.v)) |->
        RasterInterpolator("genbuffer", a.rasters.v[j], NoClamp)]

RECURSIVE GenOps(_, _)
\* the body of the with block, from the j-th pair of zip(rasters, distances)
GenOps(a, j) ==
    IF j > Min(Len(a.rasters.v), Len(a.distances.v)) THEN <<>>
    ELSE <<Op("make_buffer", "tmp", a.rasters.v[j]),
           Op("open", "genbuffer", a.rasters.v[j])>>
         \o (IF a.saveBuffers THEN <<Op("copy", "tmp", a.rasters.v[j])>>
             ELSE <<>>)
         \o GenOps(a, j + 1)

\* buffer_stack as appended on the buffers path
FileBuffers(a) ==
    [j \in 1..Len(a.buffers.v) |->
        RasterInterpolator("buffer", a.buffers.v[j], NoClamp)]

FileBufferOps(a) ==
    [j \in 1..Len(a.buffers.v) |-> Op("open", "buffer", a.buffers.v[j])]

\* every I/O step of a construction whose checks pass, in program order;
\* the removal of the temporary directory is added by WithTempDir
Plan(a) ==
    RasterOps(a) \o
    (IF a.buffers.isNone
     THEN <<Op("mkdtemp", "tmp", 0)>> \o GenOps(a, 1)
     ELSE FileBufferOps(a))

HasOp(log, op) == \E n \in 1..Len(log) : log[n].op = op

\* the steps taken when the failAt-th step of the plan raises (0: none does)
Attempt(plan, failAt) ==
    IF failAt \in 1..Len(plan)
    THEN [n \in 1..failAt |-> [plan[n] EXCEPT !.ok = (n # failAt)]]
    ELSE plan

\* the directory removed at the end of the block only, not on an exception
WithTempDir_leak(done) ==
    IF /\ \E n \in 1..Len(done) : done[n].op = "mkdtemp" /\ done[n].ok
       /\ \A n \in 1..Len(done) : done[n].ok
    THEN done \o <<Op("rmtree", "tmp", 0)>>
    ELSE done

\* tempfile.TemporaryDirectory as a context manager: once the directory was
\* created, leaving the block removes it, whether by return or by exception
WithTempDir(done) ==
    IF \E n \in 1..Len(done) : done[n].op = "mkdtemp" /\ done[n].ok
    THEN done \o <<Op("rmtree", "tmp", 0)>>
    ELSE done

\* the constructor; the failAt-th I/O step raises (0: none does)
HRDS_init(a, failAt) ==
    LET c1 == CheckArgs(a)
        c2 == CheckMinMax(a)
        failed == [status |-> c1, baseRaster |-> NoSampler,
                   raster_stack |-> <<>>, buffer_stack |-> <<>>,
                   io |-> <<>>]
    IN
    IF c1.exc # "none" THEN failed
    ELSE IF c2.exc # "none" THEN [failed EXCEPT !.status = c2]
    ELSE IF failAt \in 1..Len(Plan(a))
    THEN [failed EXCEPT
            !.status = Done("IOError", <<failAt>>),
            !.io = WithTempDir(Attempt(Plan(a), failAt))]
    ELSE [status |-> Done("none", <<>>),
          baseRaster |-> LoadBase(a),
          raster_stack |-> Reverse(LoadRasters(a)),
          buffer_stack |-> Reverse(IF a.buffers.isNone THEN GenBuffers(a)
                                   ELSE FileBuffers(a)),
          io |-> WithTempDir(Plan(a))]

\* whether the temporary directory exists once the log's steps were taken
TmpDirAfter(log) ==
    IF ~\E n \in 1..Len(log) : log[n].op = "mkdtemp" /\ log[n].ok
    THEN "none"
    ELSE IF HasOp(log, "rmtree") THEN "removed" ELSE "exists"

----------------------------------------------------------------------------
(* HRDS.set_bands                                                          *)

RECURSIVE SetEach(_, _, _)
\* for r in stack: r.set_band(bands[counter]); counter += 1, for the
\* samplers from stored position j on; bands[counter] raises IndexError
\* past the end of bands and leaves the remaining samplers as they were
SetEach(stack, bands, j) ==
    IF j > Len(stack) THEN [stack |-> stack, exc |-> "none"]
    ELSE IF j + 1 > Len(bands) THEN [stack |-> stack, exc |-> "IndexError"]
    ELSE SetEach([stack EXCEPT ![j] = set_band(stack[j], bands[j + 1])],
                 bands, j + 1)

set_bands(self, bands) ==
    IF bands.isNone
    THEN [baseRaster |-> set_band(self.baseRaster, 1),
          raster_stack |-> [j \in 1..Len(self.raster_stack) |->
                               set_band(self.raster_stack[j], 1)],
          buffer_stack |-> [j \in 1..Len(self.buffer_stack) |->
                               set_band(self.buffer_stack[j], 1)],
          exc |-> "none"]
    ELSE IF Len(bands.v) = 0
    THEN [baseRaster |-> self.baseRaster,
          raster_stack |-> self.raster_stack,
          buffer_stack |-> self.buffer_stack, exc |-> "IndexError"]
    ELSE LET rs == SetEach(self.raster_stack, bands.v, 1)
             bs == SetEach(self.buffer_stack, bands.v, 1)
         IN [baseRaster |-> set_band(self.baseRaster, bands.v[1]),
             raster_stack |-> rs.stack,
             buffer_stack |-> IF rs.exc = "none" THEN bs.stack
                              ELSE self.buffer_stack,
             exc |-> IF rs.exc # "none" THEN rs.exc ELSE bs.exc]

----------------------------------------------------------------------------
(* HRDS.get_val                                                            *)

\* a float x, as a numerator over One
Float(x) == x * One

\* r.get_val(point), as get_val returns it
Unblended(o) == IF o.exc = "none" THEN Ok(Float(o.v)) ELSE o

\* v1*w + v2*(1-w); the operands are sampled left to right and the first
\* sampler that raises ends the call
Blend(o1, w, o2) ==
    IF o1.exc # "none" THEN o1
    ELSE IF w.exc # "none" THEN w
    ELSE IF o2.exc # "none" THEN o2
    ELSE Ok(o1.v * w.v + o2.v * (One - w.v))

RECURSIVE NextIn(_, _, _)
\* for rr in self.raster_stack[i+1:]: the first stored position from j on
\* whose raster contains the point, 0 when there is none
NextIn(stack, j, p) ==
    IF j > Len(stack) THEN 0
    ELSE IF point_in(stack[j], p) THEN j
    ELSE NextIn(stack, j + 1, p)

RECURSIVE Scan_sameLayer(_, _, _)
\* the search for the blend partner starts at the layer itself
Scan_sameLayer(self, p, j) ==
    IF j > Min(Len(self.raster_stack), Len(self.buffer_stack))
    THEN Unblended(Sample(self.baseRaster, p))
    ELSE LET r == self.raster_stack[j]
             b == self.buffer_stack[j]
             w == Sample(b, p)
             n == NextIn(self.raster_stack, j, p)
         IN IF point_in(r, p)
            THEN IF w.exc # "none" THEN w
                 ELSE IF w.v = One THEN Unblended(Sample(r, p))
                 ELSE IF n # 0
                      THEN Blend(Sample(r, p), w,
                                 Sample(self.raster_stack[n], p))
                      ELSE Blend(Sample(r, p), w,
                                 Sample(self.baseRaster, p))
            ELSE Scan_sameLayer(self, p, j + 1)

RECURSIVE Scan_zero(_, _, _)
\* a point outside every raster, the base included, yields zero
Scan_zero(self, p, j) ==
    IF j > Min(Len(self.raster_stack), Len(self.buffer_stack))
    THEN IF Sample(self.baseRaster, p).exc = "none"
         THEN Unblended(Sample(self.baseRaster, p)) ELSE Ok(0)
    ELSE LET r == self.raster_stack[j]
             b == self.buffer_stack[j]
             w == Sample(b, p)
             n == NextIn(self.raster_stack, j + 1, p)
         IN IF point_in(r, p)
            THEN IF w.exc # "none" THEN w
                 ELSE IF w.v = One THEN Unblended(Sample(r, p))
                 ELSE IF n # 0
                      THEN Blend(Sample(r, p), w,
                                 Sample(self.raster_stack[n], p))
                      ELSE Blend(Sample(r, p), w,
                                 Sample(self.baseRaster, p))
            ELSE Scan_zero(self, p, j + 1)

RECURSIVE Scan(_, _, _)
\* the loop over zip(range, raster_stack, buffer_stack), from stored
\* position j on
Scan(self, p, j) ==
    IF j > Min(Len(self.raster_stack), Len(self.buffer_stack))
    THEN Unblended(Sample(self.baseRaster, p))
    ELSE LET r == self.raster_stack[j]
             b == self.buffer_stack[j]
             w == Sample(b, p)
             n == NextIn(self.raster_stack, j + 1, p)
         IN IF point_in(r, p)
            THEN IF w.exc # "none" THEN w
                 ELSE IF w.v = One THEN Unblended(Sample(r, p))
                 ELSE IF n # 0
                      THEN Blend(Sample(r, p), w,
                                 Sample(self.raster_stack[n], p))
                      ELSE Blend(Sample(r, p), w,
                                 Sample(self.baseRaster, p))
            ELSE Scan(self, p, j + 1)

get_val(self, p) == Scan(self, p, 1)

----------------------------------------------------------------------------
(* The state machine                                                       *)

Self == [baseRaster |-> baseRaster, raster_stack |-> raster_stack,
         buffer_stack |-> buffer_stack]

NoArgs == [rasters |-> NoneArg, distances |-> NoneArg, buffers |-> NoneArg,
           minmax |-> NoneArg, saveBuffers |-> FALSE]
NoCall == [op |-> "none", bands |-> NoneArg]
NoPoint == [r |-> <<>>, b |-> <<>>, base |-> "in"]
NoResult == Ok(0)

MaxLen == MaxRasters + MaxExtra

\* the constructor's arguments; saveBuffers is read on the distances path
\* only, so it is left at its default when buffers are supplied
ArgSets ==
    {a \in [rasters : OptSeqs(MaxRasters), distances : OptSeqs(MaxLen),
            buffers : OptSeqs(MaxLen), minmax : OptSeqs(MaxLen + 1),
            saveBuffers : BOOLEAN] :
       a.saveBuffers => a.buffers.isNone}

\* the band lists given to set_bands: n bands, at most one of them not the
\* first band
BandLists(n) ==
    {s \in [1..n -> Bands] : Cardinality({k \in 1..n : s[k] # 1}) <= 1}

\* the points of the plane, each identified by what every file of the
\* stack holds there
\* a buffer stored past the end of the raster stack is paired with no
\* raster and never sampled; points are not told apart by it
Points ==
    [r : [1..Len(raster_stack) -> RasterProfiles],
     b : {f \in [1..Len(buffer_stack) -> BufferProfiles] :
            \A j \in 1..Len(buffer_stack) :
              j > Len(raster_stack) => f[buffer_stack[j].src + 1] = "one"},
     base : BaseProfiles]

Built == status.phase = "returned" /\ status.exc = "none"

Init ==
    /\ baseRaster = NoSampler
    /\ raster_stack = <<>>
    /\ buffer_stack = <<>>
    /\ status = NotBuilt
    /\ args = NoArgs
    /\ io = <<>>
    /\ tmpdir = "none"
    /\ call = NoCall
    /\ point = NoPoint
    /\ result = NoResult

Construct ==
    /\ status.phase = "new"
    /\ \E a \in ArgSets :
         \E failAt \in 0..(IF CheckArgs(a).exc = "none" THEN Len(Plan(a))
                           ELSE 0) :
           LET o == HRDS_init(a, failAt) IN
           /\ args' = a
           /\ status' = o.status
           /\ baseRaster' = o.baseRaster
           /\ raster_stack' = o.raster_stack
           /\ buffer_stack' = o.buffer_stack
           /\ io' = o.io
           /\ tmpdir' = TmpDirAfter(o.io)
    /\ call' = [op |-> "init", bands |-> NoneArg]
    /\ UNCHANGED <<point, result>>

SetBands ==
    /\ Built
    /\ call = NoCall
    /\ \E bands \in {NoneArg} \cup
                    {Some(s) : s \in BandLists(Len(raster_stack) + 1)} :
         LET o == set_bands(Self, bands) IN
         /\ baseRaster' = o.baseRaster
         /\ raster_stack' = o.raster_stack
         /\ buffer_stack' = o.buffer_stack
         /\ call' = [op |-> "set_bands", bands |-> bands]
         /\ result' = IF o.exc = "none" THEN NoResult ELSE Raise(o.exc, 0)
    /\ point' = NoPoint
    /\ UNCHANGED <<status, args, io, tmpdir>>

\* the scan consumes the raster stack it walks
GetVal_consume ==
    /\ Built
    /\ call = NoCall
    /\ \E p \in Points :
         /\ point' = p
         /\ result' = Scan(Self, p, 1)
    /\ call' = [op |-> "get_val", bands |-> NoneArg]
    /\ raster_stack' = IF raster_stack = <<>> THEN raster_stack
                       ELSE Tail(raster_stack)
    /\ UNCHANGED <<baseRaster, buffer_stack, status, args, io, tmpdir>>

GetVal ==
    /\ Built
    /\ call = NoCall
    /\ \E p \in Points :
         /\ point' = p
         /\ result' = get_val(Self, p)
    /\ call' = [op |-> "get_val", bands |-> NoneArg]
    /\ UNCHANGED <<baseRaster, raster_stack, buffer_stack, status, args, io,
                   tmpdir>>

\* the caller takes what the call returned or raised; the program is
\* synchronous, so the next call starts only after that
Return ==
    /\ call # NoCall
    /\ call' = NoCall
    /\ point' = NoPoint
    /\ result' = NoResult
    /\ UNCHANGED <<baseRaster, raster_stack, buffer_stack, status, args, io,
                   tmpdir>>

Next == Construct \/ SetBands \/ GetVal \/ Return

Spec == Init /\ [][Next]_vars

TypeOK ==
    /\ status.phase \in {"new", "returned"}
    /\ tmpdir \in {"none", "exists", "removed"}
    /\ Len(raster_stack) <= MaxRasters

----------------------------------------------------------------------------
(* Vocabulary of the properties                                            *)

Returned == status.phase = "returned"
NumRasters == Len(args.rasters.v)
Queried == call.op = "get_val"

Containing == {j \in 1..Len(raster_stack) : point_in(raster_stack[j], point)}

\* the stored position of the containing raster given latest in `rasters`,
\* 0 when no refinement raster contains the point
TopLayer ==
    IF Containing = {} THEN 0
    ELSE CHOOSE a \in Containing :
           \A c \in Containing : raster_stack[c].src <= raster_stack[a].src

\* the containing rasters given earlier than the one stored at position a
Below(a) ==
    {c \in Containing : raster_stack[c].src < raster_stack[a].src}

\* the sampler the layer stored at position a blends with: the containing
\* raster given latest among those given before it, or the base raster
Partner(a) ==
    IF Below(a) = {} THEN baseRaster
    ELSE raster_stack[CHOOSE c \in Below(a) :
           \A d \in Below(a) : raster_stack[d].src <= raster_stack[c].src]

\* the layer stored at position a has a buffer, and its value at the point
HasWeight(a) ==
    /\ a \in 1..Len(buffer_stack)
    /\ Sample(buffer_stack[a], point).exc = "none"
Weight(a) == Sample(buffer_stack[a], point)

\* the rasters-vs-distances/buffers check passes
LengthsAgree ==
    /\ ~args.rasters.isNone
    /\ IF args.distances.isNone
       THEN ~args.buffers.isNone /\ Len(args.buffers.v) = NumRasters
       ELSE Len(args.distances.v) = NumRasters

\* exactly one of distances and buffers is supplied, with len(rasters) entries
ExactlyOneSupplied ==
    /\ ~args.rasters.isNone
    /\ args.distances.isNone # args.buffers.isNone
    /\ IF args.distances.isNone
       THEN Len(args.buffers.v) = NumRasters
       ELSE Len(args.distances.v) = NumRasters

----------------------------------------------------------------------------
(* Properties                                                              *)

\* C1: when the point lies in a raster A given later and a raster B given
\* earlier, A is the latest-given raster containing the point and the buffer
\* stored with A is exactly 1.0 there, get_val returns what sampling A
\* returns, whatever B, B's buffer and the base raster hold.
C1_PriorityWins ==
    Queried =>
      \A a, b \in Containing :
        (/\ raster_stack[a].src > raster_stack[b].src
         /\ a = TopLayer
         /\ HasWeight(a)
         /\ Weight(a).v = One)
        => result = Unblended(Sample(raster_stack[a], point))

C1_Witness ==
    /\ Queried
    /\ result.exc = "none"
    /\ \E a, b \in Containing :
         /\ raster_stack[a].src > raster_stack[b].src
         /\ a = TopLayer
         /\ HasWeight(a)
         /\ Weight(a).v = One
         /\ b \in 1..Len(buffer_stack)
         /\ Sample(buffer_stack[b], point) # Weight(a)

\* C2: when the buffer stored with the latest-given containing raster has a
\* value w other than 1.0 at the point, get_val returns v*w + vp*(1-w), vp
\* sampled from the latest-given containing raster among those given before
\* it, or from the base raster when there is none.
C2_Blend ==
    Queried =>
      LET a == TopLayer IN
      (a # 0 /\ HasWeight(a) /\ Weight(a).v # One)
      => result = Blend(Sample(raster_stack[a], point), Weight(a),
                        Sample(Partner(a), point))

C2_Witness ==
    /\ Queried
    /\ result.exc = "none"
    /\ TopLayer # 0
    /\ HasWeight(TopLayer)
    /\ Weight(TopLayer).v # One
    /\ Cardinality(Below(TopLayer)) >= 2

\* C3: a construction that does not supply exactly one of distances and
\* buffers with len(rasters) entries fails with HRDSError before any file is
\* opened, and only the others go on to load files.
C3_ExactlyOne ==
    (Returned /\ ~args.rasters.isNone) =>
      /\ ~ExactlyOneSupplied => (status.exc = "HRDSError" /\ io = <<>>)
      /\ io # <<>> => ExactlyOneSupplied

\* C4: after a successful construction, the raster, the buffer and the clamp
\* stored at position j (from 0) all come from input position N-1-j, the
\* clamp being minmax[N-j] when minmax is given.
C4_Pairing ==
    (Returned /\ status.exc = "none") =>
      \A j \in 1..NumRasters :
        /\ j \in 1..Len(raster_stack)
        /\ raster_stack[j].src = NumRasters - j
        /\ j \in 1..Len(buffer_stack)
        /\ buffer_stack[j].src = NumRasters - j
        /\ ~args.minmax.isNone
             => raster_stack[j].minmax.pos = NumRasters - j + 1

\* C5: on a stack built from exactly one of distances and buffers, a
\* set_bands call with N+1 bands that returns has selected bands[0] on the
\* base raster and bands[k] on the raster given at position k-1 and on that
\* raster's buffer.
C5_BandsInputOrder ==
    (call.op = "set_bands" /\ ~call.bands.isNone
       /\ Len(call.bands.v) = NumRasters + 1
       /\ ExactlyOneSupplied /\ result.exc = "none") =>
      /\ baseRaster.band = call.bands.v[1]
      /\ \A k \in 1..NumRasters :
           /\ \A j \in 1..Len(raster_stack) :
                raster_stack[j].src = k - 1
                  => raster_stack[j].band = call.bands.v[k + 1]
           /\ \A j \in 1..Len(buffer_stack) :
                buffer_stack[j].src = k - 1
                  => buffer_stack[j].band = call.bands.v[k + 1]

\* C6: when the length check passes and minmax is given with a length other
\* than len(rasters)+1, construction raises HRDSError carrying the supplied
\* and the expected count, and no file has been opened.
C6_MinMaxCount ==
    (Returned /\ LengthsAgree /\ ~args.minmax.isNone
       /\ Len(args.minmax.v) # NumRasters + 1) =>
      /\ status = Done("HRDSError", <<Len(args.minmax.v), NumRasters + 1>>)
      /\ io = <<>>

C6_Witness ==
    /\ Returned
    /\ LengthsAgree
    /\ ~args.minmax.isNone
    /\ Len(args.minmax.v) # NumRasters + 1
    /\ NumRasters >= 1
    /\ status.exc = "HRDSError"

\* C7: when no refinement raster contains the point, get_val returns or
\* raises exactly what sampling the base raster returns or raises.
C7_BaseFallback ==
    (Queried /\ Containing = {}) =>
      result = Unblended(Sample(baseRaster, point))

C7_Witness ==
    /\ Queried
    /\ Containing = {}
    /\ Len(raster_stack) >= 1
    /\ Len(buffer_stack) >= 1
    /\ result.exc = "QueryError"

\* C8: once the constructor has created the temporary directory, the
\* directory is removed when the constructor returns or raises.
C8_TempDirRemoved ==
    Returned =>
      /\ tmpdir # "exists"
      /\ (\E n \in 1..Len(io) : io[n].op = "mkdtemp" /\ io[n].ok)
           => (tmpdir = "removed" /\ io[Len(io)].op = "rmtree")

C8_Witness ==
    /\ Returned
    /\ status.exc = "IOError"
    /\ tmpdir = "removed"
    /\ \E n \in 1..Len(io) :
         io[n].op \in {"make_buffer", "open", "copy"} /\ io[n].k >= 1
           /\ io[n].what \in {"tmp", "genbuffer"} /\ ~io[n].ok

\* C9: a get_val call leaves the base raster, both stacks and the band
\* selections as they were, and asking again for the same point on the stack
\* it leaves behind gives the result it gave.
C9_NoWrites ==
    [][call'.op = "get_val" =>
         /\ UNCHANGED <<baseRaster, raster_stack, buffer_stack>>
         /\ get_val(Self, point)' = result']_vars

C9_Witness ==
    /\ Queried
    /\ Len(raster_stack) >= 2
    /\ result.exc = "QueryError"

\* C10: after a successful construction, the raster stack and the buffer
\* stack both have len(rasters) entries.
C10_SameLength ==
    (Returned /\ status.exc = "none") =>
      /\ Len(raster_stack) = NumRasters
      /\ Len(buffer_stack) = NumRasters

====
